---------------------------- MODULE Spec2Model ----------------------------
(***************************************************************************)
(* A model of flask_restful_routing: the Route / RootRoute tree, its       *)
(* registration with a flask_restful Api, and the dispatch step of the     *)
(* classes that wrapped_cls synthesises.                                   *)
(*                                                                         *)
(* Python strings are sequences of one-character strings, so that          *)
(* str.lower, str.endswith, slicing, re.sub and str.format are computed    *)
(* character by character.  Python objects live in `heap` and are named by *)
(* their index in it; index 0 stands for None.  The application keeps a    *)
(* reference to every object it constructs, so the weakref.proxy a node    *)
(* holds to its parent is never dead and reads as the parent itself.  The  *)
(* Api is the flask_restful collaborator: it records the add_resource      *)
(* calls made on it and raises nothing.                                    *)
(***************************************************************************)
EXTENDS Integers, Sequences, FiniteSets, TLC

VARIABLES
    heap,      \* the Route and RootRoute objects constructed so far
    err,       \* the exception a constructor raised ("" while none was)
    call,      \* SpecCtor: the Route(...) call to be made, then the one made
    runs,      \* one entry per RootRoute.register_routes call on a fresh Api
    nextCls,   \* number of classes wrapped_cls has created so far
    req,       \* a request being dispatched to a Wrapped class
    res        \* what Wrapped.dispatch_request did with it

vars == <<heap, err, call, runs, nextCls, req, res>>

---------------------------------------------------------------------------
(* Bounds of the model.                                                    *)

\* Objects (Route and RootRoute) a behaviour constructs.
MaxObjs == 4
\* register_routes calls a behaviour makes.
MaxRuns == 2

---------------------------------------------------------------------------
(* Python strings.                                                         *)

UpperCase ==
    <<"A","B","C","D","E","F","G","H","I","J","K","L","M",
      "N","O","P","Q","R","S","T","U","V","W","X","Y","Z">>
LowerCase ==
    <<"a","b","c","d","e","f","g","h","i","j","k","l","m",
      "n","o","p","q","r","s","t","u","v","w","x","y","z">>
Digits == {"0","1","2","3","4","5","6","7","8","9"}

Range(s) == {s[i] : i \in 1..Len(s)}

\* str.lower, one character
LowerChar(c) ==
    IF \E i \in 1..Len(UpperCase) : UpperCase[i] = c
    THEN LowerCase[CHOOSE i \in 1..Len(UpperCase) : UpperCase[i] = c]
    ELSE c

\* str.lower
lower(s) == [i \in 1..Len(s) |-> LowerChar(s[i])]

\* str.endswith with a one-character suffix
endswith(s, c) == Len(s) > 0 /\ s[Len(s)] = c

\* the character class [A-Za-z0-9]
IsAlnum(c) == c \in Range(UpperCase) \cup Range(LowerCase) \cup Digits

\* re.sub(r'[^A-Za-z0-9]', '_', s)
safe_endpoint(s) == [i \in 1..Len(s) |-> IF IsAlnum(s[i]) THEN s[i] ELSE "_"]

\* s[:-1]
DropLast(s) == SubSeq(s, 1, Len(s) - 1)

\* the literals of the source
S_ies == <<"i","e","s">>
S_s == <<"s">>
S_dash == <<"-">>
S_int == <<"i","n","t">>
S_string == <<"s","t","r","i","n","g">>

\* '{}/<{}:{}_id>'.format(base_path, single_type, safe)
FormatSinglePath(base_path, single_type, safe) ==
    base_path \o <<"/","<">> \o single_type \o <<":">> \o safe
              \o <<"_","i","d",">">>

---------------------------------------------------------------------------
(* Classes and loaders.  A Resource class is named by a string; a loader   *)
(* by a string; None is the string "None".                                 *)

None == "None"

\* the Resource classes of the applications that define restful_loader
LoaderClasses == {"c", "t"}

Resource(name) == [type |-> "Resource", name |-> name]
NoneCls == [type |-> "None"]

\* hasattr(cls, 'restful_loader')
HasRestfulLoader(cls) == cls.type = "Resource" /\ cls.name \in LoaderClasses
\* cls.restful_loader
RestfulLoader(cls) == cls.name \o ".restful_loader"

\* The __name__ the statement `class Wrapped(cls)` gives the class.
S_Wrapped == <<"W","r","a","p","p","e","d">>

\* The class wrapped_cls(cls, loader) returns: a new class object on every
\* call (id), subclass of cls, closing over loader, named 'Wrapped' until
\* register_routes assigns its __name__ (lines 158, 168).
wrapped_cls(cls, loader, id) ==
    [type |-> "Wrapped", base |-> cls, loader |-> loader, id |-> id,
     name |-> S_Wrapped]

IsWrapped(cls) == cls.type = "Wrapped"
\* the class the application wrote: cls itself, or the base of a Wrapped
BaseOf(cls) == IF IsWrapped(cls) THEN cls.base ELSE cls

---------------------------------------------------------------------------
(* Route and RootRoute objects.                                            *)

\* Route.__init__ raised "Endpoints must be singular..."
EndpointError == "ValueError: Endpoints must be singular"
\* Route.__init__ raised "Please specify either `single.restful_loader` or
\* `loader`"
LoaderError == "ValueError: Please specify either single.restful_loader or loader"

\* The object RootRoute.__init__ builds.
RootRouteObj(children) == [kind |-> "RootRoute", children |-> children]

\* RootRoute.__init__(children): the heap with the new object appended.
RootRouteInit(h, children) == Append(h, RootRouteObj(children))

\* Mutant: the test without .lower().
IsPluralName_cased(endpoint) == endswith(endpoint, "s")

\* The test of line 112.
IsPluralName(endpoint) == endswith(lower(endpoint), "s")

\* The fields Route.__init__ has assigned when it reaches line 130.
RouteObj(a) ==
    [kind          |-> "Route",
     children      |-> a.children,
     endpoint      |-> a.endpoint,
     route         |-> a.route,
     single        |-> a.single,
     plural        |-> a.plural,
     single_type   |-> a.single_type,
     safe_endpoint |-> safe_endpoint(a.endpoint),
     parent        |-> 0,
     loader        |-> a.loader]

\* for child in self._children: child._parent = weakref.proxy(self)
SetParents(h, children, self) ==
    [i \in 1..Len(h) |->
        IF i \in Range(children) THEN [h[i] EXCEPT !.parent = self] ELSE h[i]]

\* Mutant: the explicit loader wins and nothing is raised.
RouteInit_silent(h, a) ==
    IF IsPluralName(a.endpoint)
    THEN [heap |-> h, err |-> EndpointError]
    ELSE LET self == Len(h) + 1
             h1 == Append(SetParents(h, a.children, self), RouteObj(a))
         IN  IF HasRestfulLoader(a.single) /\ a.loader = None
             THEN [heap |-> [h1 EXCEPT ![self].loader =
                                 RestfulLoader(a.single)],
                   err |-> ""]
             ELSE [heap |-> h1, err |-> ""]

\* Route.__init__(endpoint, route, plural, single, children, single_type,
\* loader) on heap h: the heap it leaves and the exception it raises ("" for
\* none).  The endpoint test comes first and leaves the heap alone; the
\* loader test comes last, after the children's _parent has been assigned.
RouteInit(h, a) ==
    IF IsPluralName(a.endpoint)
    THEN [heap |-> h, err |-> EndpointError]
    ELSE LET self == Len(h) + 1
             h1 == Append(SetParents(h, a.children, self), RouteObj(a))
         IN  IF HasRestfulLoader(a.single)
             THEN IF a.loader # None
                  THEN [heap |-> h1, err |-> LoaderError]
                  ELSE [heap |-> [h1 EXCEPT ![self].loader =
                                      RestfulLoader(a.single)],
                        err |-> ""]
             ELSE [heap |-> h1, err |-> ""]

\* Route._plural_endpoint
plural_endpoint(o) ==
    IF endswith(lower(o.endpoint), "y")
    THEN DropLast(o.endpoint) \o S_ies
    ELSE o.endpoint \o S_s

Routes(h) == {i \in 1..Len(h) : h[i].kind = "Route"}
Roots(h) == {i \in 1..Len(h) : h[i].kind = "RootRoute"}

---------------------------------------------------------------------------
(* Registration.  An Api is the sequence of add_resource calls made on it; *)
(* st carries the Api, the number of classes created so far and the heap:  *)
(* register_routes runs on the live objects, and st.heap is the heap as    *)
(* the statements executed so far have left it.                            *)

\* api.add_resource(cls, path, endpoint=endpoint)
add_resource(st, cls, path, endpoint) ==
    [st EXCEPT !.api = Append(@, [cls |-> cls, path |-> path,
                                  endpoint |-> endpoint])]

\* Mutant: the plural class wrapped with the node's own loader.
RegisterPlural_own(n, st, plural_ep, base_path) ==
    LET o == st.heap[n]
    IN  IF o.plural = NoneCls THEN st
        ELSE IF o.loader # None
             THEN LET w == [wrapped_cls(o.plural, o.loader, st.ncls + 1)
                               EXCEPT !.name = plural_ep]
                  IN  add_resource([st EXCEPT !.ncls = @ + 1], w, base_path,
                                   plural_ep)
             ELSE add_resource(st, o.plural, base_path, plural_ep)

\* Lines 154-162: the plural registration of node n.  The class to register
\* is the local plural_cls; self._plural is read and never assigned.
RegisterPlural(n, st, plural_ep, base_path) ==
    LET o == st.heap[n]
    IN  IF o.plural = NoneCls THEN st
        ELSE IF o.parent # 0 /\ st.heap[o.parent].loader # None
             THEN LET w == [wrapped_cls(o.plural, st.heap[o.parent].loader,
                                        st.ncls + 1)
                               EXCEPT !.name = plural_ep]
                  IN  add_resource([st EXCEPT !.ncls = @ + 1], w, base_path,
                                   plural_ep)
             ELSE add_resource(st, o.plural, base_path, plural_ep)

\* Mutant: the wrapped class is assigned to self._single instead of to the
\* local single_cls, so the node keeps it.
RegisterSingle_stored(n, st, single_ep, single_path) ==
    LET o == st.heap[n]
    IN  IF o.single = NoneCls THEN st
        ELSE IF o.loader # None
             THEN LET w == [wrapped_cls(o.single, o.loader, st.ncls + 1)
                               EXCEPT !.name = single_ep]
                  IN  add_resource([st EXCEPT !.ncls = @ + 1,
                                              !.heap[n].single = w],
                                   w, single_path, single_ep)
             ELSE add_resource(st, o.single, single_path, single_ep)

\* Lines 164-172: the single registration of node n.  The class to register
\* is the local single_cls; self._single is read and never assigned.
RegisterSingle(n, st, single_ep, single_path) ==
    LET o == st.heap[n]
    IN  IF o.single = NoneCls THEN st
        ELSE IF o.loader # None
             THEN LET w == [wrapped_cls(o.single, o.loader, st.ncls + 1)
                               EXCEPT !.name = single_ep]
                  IN  add_resource([st EXCEPT !.ncls = @ + 1], w, single_path,
                                   single_ep)
             ELSE add_resource(st, o.single, single_path, single_ep)

\* The prefixes line 177 hands to the children.
ChildEndpoint(plural_ep) == plural_ep \o S_dash
\* Mutant: the children mounted under the plural path.
ChildRoute_base(base_path, single_path) == base_path
ChildRoute(base_path, single_path) == single_path

RECURSIVE register_routes(_, _, _, _), RegisterChildren(_, _, _, _)

\* Route.register_routes(api, endpoint, route) of object n.
register_routes(n, st, endpoint, route) ==
    LET o == st.heap[n]
        single_ep == endpoint \o o.endpoint
        plural_ep == endpoint \o plural_endpoint(o)
        base_path == route \o o.route
        single_path == FormatSinglePath(base_path, o.single_type,
                                        o.safe_endpoint)
        st1 == RegisterPlural(n, st, plural_ep, base_path)
        st2 == RegisterSingle(n, st1, single_ep, single_path)
    IN  RegisterChildren(st2.heap[n].children, st2, ChildEndpoint(plural_ep),
                         ChildRoute(base_path, single_path))

\* for child in children: child.register_routes(api, endpoint, route)
RegisterChildren(children, st, endpoint, route) ==
    IF children = <<>> THEN st
    ELSE RegisterChildren(Tail(children),
                          register_routes(Head(children), st, endpoint,
                                          route),
                          endpoint, route)

\* RootRoute.register_routes(api) of object r, on a fresh Api, run on heap h
\* with ncls classes created before.
RootRegisterRoutes(h, r, ncls) ==
    RegisterChildren(h[r].children,
                     [api |-> <<>>, ncls |-> ncls, heap |-> h],
                     <<>>, <<>>)

---------------------------------------------------------------------------
(* The calls an application makes.                                         *)

NoCall == [op |-> "none"]
NoReq == [op |-> "none"]
NoRes == [op |-> "none"]

\* The arguments of a Route(...) call; an omitted children is [] (line 110).
Args(endpoint, route, plural, single, single_type, loader) ==
    [endpoint |-> endpoint, route |-> route, plural |-> plural,
     single |-> single, children |-> <<>>, single_type |-> single_type,
     loader |-> loader]

S_user == <<"u","s","e","r">>
S_post == <<"p","o","s","t">>
S_category == <<"c","a","t","e","g","o","r","y">>
S_v1 == <<"v","-","1">>
S_users == <<"u","s","e","r","s">>
S_tag == <<"t","a","g">>
R_users == <<"/","u","s","e","r","s">>
R_posts == <<"/","p","o","s","t","s">>
R_categories == <<"/","c","a","t","e","g","o","r","i","e","s">>
R_tags == <<"/","t","a","g","s">>

\* Route('user', '/users', plural=U, single=u, loader=L)
ArgsUser == Args(S_user, R_users, Resource("U"), Resource("u"), S_int, "L")
\* Route('post', '/posts', plural=P, single=p)
ArgsPost == Args(S_post, R_posts, Resource("P"), Resource("p"), S_int, None)
\* Route('category', '/categories', plural=C, single=c, single_type='string')
\* where c defines restful_loader
ArgsCategory ==
    Args(S_category, R_categories, Resource("C"), Resource("c"), S_string,
         None)
\* Route('v-1', ''): a node with neither handler
ArgsGroup == Args(S_v1, <<>>, NoneCls, NoneCls, S_int, None)
\* Route('users', '/users', plural=U): a plural endpoint
ArgsPluralName == Args(S_users, R_users, Resource("U"), NoneCls, S_int, None)
\* Route('tag', '/tags', single=t, loader=L2) where t defines restful_loader
ArgsTwoLoaders == Args(S_tag, R_tags, NoneCls, Resource("t"), S_int, "L2")

\* The Route(...) calls the applications of Spec make, children apart.
Templates ==
    {ArgsUser, ArgsPost, ArgsCategory, ArgsGroup, ArgsPluralName,
     ArgsTwoLoaders}

\* The elements of a set of object ids, in increasing order.
RECURSIVE Sorted(_)
Sorted(S) ==
    IF S = {} THEN <<>>
    ELSE LET m == CHOOSE x \in S : \A y \in S : x <= y
         IN  <<m>> \o Sorted(S \ {m})

\* The children lists an application can pass: Routes constructed before,
\* each at most once, listed in the order of their construction.
ChildLists(h) == {Sorted(S) : S \in SUBSET Routes(h)}

\* No constructed Route has this endpoint yet: the applications of Spec name
\* each resource once.
FreshEndpoint(h, endpoint) == \A i \in Routes(h) : h[i].endpoint # endpoint

---------------------------------------------------------------------------
(* Actions.  A constructor that raises ends the start-up: nothing is        *)
(* constructed or registered after it (err # "").                           *)

Init ==
    /\ heap = <<>>
    /\ err = ""
    /\ call = NoCall
    /\ runs = <<>>
    /\ nextCls = 0
    /\ req = NoReq
    /\ res = NoRes

\* node = Route(...)
Construct ==
    /\ err = ""
    /\ Len(heap) < MaxObjs
    /\ \E t \in Templates, ch \in ChildLists(heap) :
          /\ FreshEndpoint(heap, t.endpoint)
          /\ LET a == [t EXCEPT !.children = ch]
                 r == RouteInit(heap, a)
             IN  /\ heap' = r.heap
                 /\ err' = r.err
    /\ UNCHANGED <<call, runs, nextCls, req, res>>

\* root = RootRoute(children); the applications of Spec build one tree.
ConstructRoot ==
    /\ err = ""
    /\ Roots(heap) = {}
    /\ Len(heap) < MaxObjs
    /\ \E ch \in ChildLists(heap) :
          heap' = RootRouteInit(heap, ch)
    /\ UNCHANGED <<err, call, runs, nextCls, req, res>>

\* root.register_routes(Api())
Register ==
    /\ err = ""
    /\ Len(runs) < MaxRuns
    /\ \E r \in Roots(heap) :
          LET st == RootRegisterRoutes(heap, r, nextCls)
          IN  /\ runs' = Append(runs, [root |-> r, tree |-> heap,
                                       regs |-> st.api])
              /\ nextCls' = st.ncls
              /\ heap' = st.heap
    /\ UNCHANGED <<err, call, req, res>>

Next == Construct \/ ConstructRoot \/ Register

Spec == Init /\ [][Next]_vars

---------------------------------------------------------------------------
(* SpecCtor: one Route(...) call, its arguments drawn from a wider set, on  *)
(* a heap that holds two Routes already.                                    *)

S_boS == <<"b","o","S">>
S_S == <<"S">>
S_Sa == <<"S","a">>
S_a_b == <<"a","-","b">>
S_kY == <<"k","Y">>

\* Endpoints in and out of the test of line 112, the empty string included.
EndpointPool ==
    {S_user, S_users, S_boS, S_S, S_Sa, S_a_b, S_kY, S_category, <<>>}

\* post = Route('post', '/posts', plural=P, single=p)
\* Route('v-1', '', children=[post])
PreHeap ==
    RouteInit(RouteInit(<<>>, ArgsPost).heap,
              [ArgsGroup EXCEPT !.children = <<1>>]).heap

CtorCalls ==
    {[op |-> "Route", done |-> FALSE,
      args |-> [Args(e, R_tags, pl, si, S_int, lo) EXCEPT !.children = ch]] :
        e \in EndpointPool,
        pl \in {NoneCls, Resource("U")},
        si \in {NoneCls, Resource("u"), Resource("c")},
        lo \in {None, "L"},
        ch \in ChildLists(PreHeap)}

InitCtor ==
    /\ heap = PreHeap
    /\ err = ""
    /\ call \in CtorCalls
    /\ runs = <<>>
    /\ nextCls = 0
    /\ req = NoReq
    /\ res = NoRes

\* Route(**call.args)
ConstructCall ==
    /\ call.op = "Route"
    /\ ~call.done
    /\ LET r == RouteInit(heap, call.args)
       IN  /\ heap' = r.heap
           /\ err' = r.err
    /\ call' = [call EXCEPT !.done = TRUE]
    /\ UNCHANGED <<runs, nextCls, req, res>>

NextCtor == ConstructCall

SpecCtor == InitCtor /\ [][NextCtor]_vars

---------------------------------------------------------------------------
(* Dispatch of a request by a class wrapped_cls made.  Python values are    *)
(* records tagged with their exact type, which is what type(x) == T reads.  *)

PyStr(v) == [type |-> "str", val |-> v]
PyNone == [type |-> "NoneType"]

\* LoaderResponse.__init__'s default for code
DefaultCode == 200

\* Mutant: the code argument dropped.
LoaderResponse_nocode(cargs) ==
    [type |-> "LoaderResponse", body |-> cargs[1], code |-> DefaultCode]

\* LoaderResponse(*cargs): cargs is <<body>> or <<body, code>>.
LoaderResponse(cargs) ==
    [type |-> "LoaderResponse", body |-> cargs[1],
     code |-> IF Len(cargs) >= 2 THEN cargs[2] ELSE DefaultCode]

\* What the inner class's dispatch_request returns.
InnerReturn == <<PyStr("inner"), PyStr("from the inner class")>>

\* Mutant: the tuple branch without kwargs = {}.
dispatch_request_keepkw(args, kwargs, loader_resp) ==
    IF loader_resp.type = "LoaderResponse"
    THEN [op |-> "returned", ret |-> <<loader_resp.body, loader_resp.code>>,
          inner |-> FALSE, args |-> <<>>, kwargs |-> {}]
    ELSE IF loader_resp.type = "tuple"
    THEN [op |-> "returned", ret |-> InnerReturn, inner |-> TRUE,
          args |-> loader_resp.items, kwargs |-> kwargs]
    ELSE IF loader_resp.type = "dict"
    THEN [op |-> "returned", ret |-> InnerReturn, inner |-> TRUE,
          args |-> args, kwargs |-> loader_resp.items]
    ELSE [op |-> "returned", ret |-> InnerReturn, inner |-> TRUE,
          args |-> <<loader_resp>>, kwargs |-> {}]

\* Wrapped.dispatch_request(*args, **kwargs), the loader having returned
\* loader_resp: what it returns, whether it called the inner class's
\* dispatch_request, and with which arguments.
dispatch_request(args, kwargs, loader_resp) ==
    IF loader_resp.type = "LoaderResponse"
    THEN [op |-> "returned", ret |-> <<loader_resp.body, loader_resp.code>>,
          inner |-> FALSE, args |-> <<>>, kwargs |-> {}]
    ELSE IF loader_resp.type = "tuple"
    THEN [op |-> "returned", ret |-> InnerReturn, inner |-> TRUE,
          args |-> loader_resp.items, kwargs |-> {}]
    ELSE IF loader_resp.type = "dict"
    THEN [op |-> "returned", ret |-> InnerReturn, inner |-> TRUE,
          args |-> args, kwargs |-> loader_resp.items]
    ELSE [op |-> "returned", ret |-> InnerReturn, inner |-> TRUE,
          args |-> <<loader_resp>>, kwargs |-> {}]

\* What a loader evaluates: a LoaderResponse(...) expression, another value,
\* or a raise.
Eval(expr) ==
    IF expr.ctor = "LoaderResponse" THEN LoaderResponse(expr.cargs)
    ELSE expr.value

\* Wrapped.dispatch_request(*args, **kwargs) with a loader that raises: the
\* exception leaves dispatch_request as it is.
DispatchOutcome(r) ==
    IF r.loader.ctor = "raise"
    THEN [op |-> "raised", exc |-> r.loader.exc, inner |-> FALSE,
          args |-> <<>>, kwargs |-> {}]
    ELSE dispatch_request(r.args, r.kwargs, Eval(r.loader))

Value(v) == [ctor |-> "value", value |-> v]

acct == PyStr("acct")
blog == PyStr("blog")

\* What the loaders of SpecDispatch do with a request.
LoaderExprs ==
    {[ctor |-> "LoaderResponse", cargs |-> <<PyStr("not found"), 404>>],
     [ctor |-> "LoaderResponse", cargs |-> <<PyStr("ok")>>],
     [ctor |-> "raise", exc |-> "KeyError"],
     \* a subclass of LoaderResponse
     Value([type |-> "NotFound(LoaderResponse)", body |-> PyStr("gone"),
            code |-> 410]),
     Value([type |-> "tuple", items |-> <<>>]),
     Value([type |-> "tuple", items |-> <<acct>>]),
     Value([type |-> "tuple", items |-> <<acct, blog>>]),
     \* the module's namedtuple, a subclass of tuple
     Value([type |-> "object_loader", items |-> <<acct, blog, PyNone>>]),
     Value([type |-> "list", items |-> <<acct, blog>>]),
     Value([type |-> "dict", items |-> {}]),
     Value([type |-> "dict", items |-> {<<"account", acct>>}]),
     Value([type |-> "dict",
            items |-> {<<"account", acct>>, <<"blog", blog>>}]),
     \* a subclass of dict
     Value([type |-> "OrderedDict", items |-> {<<"account", acct>>}]),
     Value(acct),
     Value(PyNone)}

\* The URL arguments the framework passes: flask passes them by keyword; a
\* direct caller may pass them by position.
FrameworkArgs == {<<>>, <<PyStr("7")>>, <<PyStr("7"), PyStr("9")>>}
FrameworkKwargs ==
    {{}, {<<"user_id", PyStr("7")>>},
     {<<"user_id", PyStr("7")>>, <<"post_id", PyStr("9")>>}}

Requests ==
    {[op |-> "request", args |-> a, kwargs |-> k, loader |-> l] :
        a \in FrameworkArgs, k \in FrameworkKwargs, l \in LoaderExprs}

InitDispatch ==
    /\ heap = <<>>
    /\ err = ""
    /\ call = NoCall
    /\ runs = <<>>
    /\ nextCls = 0
    /\ req \in Requests
    /\ res = NoRes

\* Wrapped().dispatch_request(*req.args, **req.kwargs)
Dispatch ==
    /\ req.op = "request"
    /\ res = NoRes
    /\ res' = DispatchOutcome(req)
    /\ UNCHANGED <<heap, err, call, runs, nextCls, req>>

NextDispatch == Dispatch

SpecDispatch == InitDispatch /\ [][NextDispatch]_vars

---------------------------------------------------------------------------
(* What the claims speak of.                                               *)

Last(p) == p[Len(p)]

RECURSIVE Flatten(_)
\* The concatenation of a sequence of strings.
Flatten(ss) == IF ss = <<>> THEN <<>> ELSE Head(ss) \o Flatten(Tail(ss))

RECURSIVE PathsVia(_, _)
\* The descents that start with p: p and its extensions by a child.
PathsVia(h, p) ==
    {p} \cup UNION {PathsVia(h, Append(p, c)) : c \in Range(h[Last(p)].children)}

\* Every way down from root r to a Route: <<n1, ..., nk>> with n1 a child of
\* r and each next node a child of the one before.
Descents(h, r) == UNION {PathsVia(h, <<c>>) : c \in Range(h[r].children)}

\* The id segment of a node: "/<" single_type ":" safeEndpoint "_id>"
IdSegment(o) ==
    <<"/","<">> \o o.single_type \o <<":">> \o o.safe_endpoint
                \o <<"_","i","d",">">>

\* E of a descent: the plural names of the ancestors, each followed by "-".
PrefixE(h, p) ==
    Flatten([i \in 1..(Len(p) - 1) |-> plural_endpoint(h[p[i]]) \o <<"-">>])

\* P of a descent: the single paths of the ancestors, one after the other.
PrefixP(h, p) ==
    Flatten([i \in 1..(Len(p) - 1) |-> h[p[i]].route \o IdSegment(h[p[i]])])

\* The registrations the node at the end of descent p owes.
Owed(h, p) ==
    LET o == h[Last(p)]
        base == PrefixP(h, p) \o o.route
    IN  (IF o.plural = NoneCls THEN {}
         ELSE {[handler |-> o.plural, path |-> base,
                endpoint |-> PrefixE(h, p) \o plural_endpoint(o)]})
        \cup
        (IF o.single = NoneCls THEN {}
         ELSE {[handler |-> o.single, path |-> base \o IdSegment(o),
                endpoint |-> PrefixE(h, p) \o o.endpoint]})

\* A registration, its class replaced by the class the application wrote.
Triple(g) ==
    [handler |-> BaseOf(g.cls), path |-> g.path, endpoint |-> g.endpoint]

\* A registration, its class replaced by the application's class and the
\* loader it is wrapped with (None when it is registered as it is).
Wrapping(g) ==
    [handler |-> BaseOf(g.cls).name,
     loader |-> IF IsWrapped(g.cls) THEN g.cls.loader ELSE None,
     path |-> g.path, endpoint |-> g.endpoint]

RunIds == 1..Len(runs)

\* C1: in every registration run, the registrations made are exactly those
\* owed by the nodes under the root: for each descent to a node N, N's
\* plural handler at P + N.route under E + N.pluralEndpoint and N's single
\* handler at that path + "/<type:safe_id>" under E + N.endpoint, where E
\* and P are built from the ancestors' plural names and single paths, a
\* handler-less ancestor included.
C1_RegistersOwed ==
    \A i \in RunIds :
        {Triple(g) : g \in Range(runs[i].regs)}
          = UNION {Owed(runs[i].tree, p) :
                     p \in Descents(runs[i].tree, runs[i].root)}

\* A run reached a node with both handlers three levels down, under an
\* ancestor that has neither handler.
C1_Witness ==
    \E i \in RunIds :
        \E p \in Descents(runs[i].tree, runs[i].root) :
            LET h == runs[i].tree
            IN  /\ Len(p) = 3
                /\ \E k \in 1..2 : /\ h[p[k]].plural = NoneCls
                                   /\ h[p[k]].single = NoneCls
                /\ h[p[3]].plural # NoneCls
                /\ h[p[3]].single # NoneCls
                /\ Len(runs[i].regs) >= 2

\* post, then user with children [post], then the root with children [user]
UserPostHeap ==
    RootRouteInit(
        RouteInit(RouteInit(<<>>, ArgsPost).heap,
                  [ArgsUser EXCEPT !.children = <<1>>]).heap,
        <<2>>)

IsUserPostRun(i) == runs[i].tree = UserPostHeap /\ runs[i].root = 3

P_users ==
    <<"/","u","s","e","r","s">>
P_user ==
    <<"/","u","s","e","r","s","/","<","i","n","t",":","u","s","e","r",
      "_","i","d",">">>
P_user_posts ==
    <<"/","u","s","e","r","s","/","<","i","n","t",":","u","s","e","r",
      "_","i","d",">","/","p","o","s","t","s">>
P_user_post ==
    <<"/","u","s","e","r","s","/","<","i","n","t",":","u","s","e","r",
      "_","i","d",">","/","p","o","s","t","s","/","<","i","n","t",":",
      "p","o","s","t","_","i","d",">">>
E_users == <<"u","s","e","r","s">>
E_user == <<"u","s","e","r">>
E_user_posts == <<"u","s","e","r","-","p","o","s","t","s">>
E_user_post == <<"u","s","e","r","-","p","o","s","t">>
E_users_posts == <<"u","s","e","r","s","-","p","o","s","t","s">>
E_users_post == <<"u","s","e","r","s","-","p","o","s","t">>

Reg(handler, loader, path, endpoint) ==
    [handler |-> handler, loader |-> loader, path |-> path,
     endpoint |-> endpoint]

\* C2 as stated: the tree root -> user -> post registers exactly U at
\* "/users" as "users", u wrapped with L at "/users/<int:user_id>" as "user",
\* P wrapped with L at ".../posts" as "user-posts" and p unwrapped at
\* ".../posts/<int:post_id>" as "user-post".
C2_Original ==
    \A i \in RunIds :
        IsUserPostRun(i) =>
            /\ Len(runs[i].regs) = 4
            /\ {Wrapping(g) : g \in Range(runs[i].regs)}
                 = {Reg("U", None, P_users, E_users),
                    Reg("u", "L", P_user, E_user),
                    Reg("P", "L", P_user_posts, E_user_posts),
                    Reg("p", None, P_user_post, E_user_post)}

\* C2 amended: the same four registrations at the same paths, the two of
\* post under the names "users-posts" and "users-post": the prefix is the
\* parent's plural name.
C2_UserPostTree ==
    \A i \in RunIds :
        IsUserPostRun(i) =>
            /\ Len(runs[i].regs) = 4
            /\ {Wrapping(g) : g \in Range(runs[i].regs)}
                 = {Reg("U", None, P_users, E_users),
                    Reg("u", "L", P_user, E_user),
                    Reg("P", "L", P_user_posts, E_users_posts),
                    Reg("p", None, P_user_post, E_users_post)}

\* The tree root -> user -> post has been registered.
C2_Witness == \E i \in RunIds : IsUserPostRun(i) /\ Len(runs[i].regs) = 4

\* The Route a descent reaches its last node from (0: from the root).
Above(p) == IF Len(p) >= 2 THEN p[Len(p) - 1] ELSE 0

\* The plural registrations run i made for the node at the end of descent p.
PluralRegs(i, p) ==
    LET h == runs[i].tree
        o == h[Last(p)]
    IN  {g \in Range(runs[i].regs) :
            /\ o.plural # NoneCls
            /\ BaseOf(g.cls) = o.plural
            /\ g.path = PrefixP(h, p) \o o.route
            /\ g.endpoint = PrefixE(h, p) \o plural_endpoint(o)}

\* C3 as stated: a node's plural handler is registered wrapped exactly when
\* the Route the registration descends from (its immediate parent in the
\* tree) has a loader, and then with that Route's loader; under the root, or
\* under a Route without loader, the plural class itself is registered.
C3_Original ==
    \A i \in RunIds :
        \A p \in Descents(runs[i].tree, runs[i].root) :
            \A g \in PluralRegs(i, p) :
                LET h == runs[i].tree
                    above == Above(p)
                IN  IF above # 0 /\ h[above].loader # None
                    THEN IsWrapped(g.cls) /\ g.cls.loader = h[above].loader
                    ELSE g.cls = h[Last(p)].plural

\* C9 as stated: two registrations of the same root of the same tree, each
\* on a fresh Api, make the same set of (class, path, endpoint) triples.
C9_Original ==
    \A i, j \in RunIds :
        (runs[i].root = runs[j].root /\ runs[i].tree = runs[j].tree)
            => Range(runs[i].regs) = Range(runs[j].regs)

\* Runs i and j registered the same root and no constructor ran between
\* them: the heap held the same number of objects when each began.
SameTreeRuns(i, j) ==
    /\ runs[i].root = runs[j].root
    /\ Len(runs[i].tree) = Len(runs[j].tree)

\* A registration with the identity of a Wrapped class left out: the class
\* it wraps, its loader and its __name__ remain.  An unwrapped class stays
\* the class object itself.
UpToIdentity(g) ==
    [g EXCEPT !.cls = IF IsWrapped(@) THEN [@ EXCEPT !.id = 0] ELSE @]

\* Two registrations of the same root with no constructor call between
\* them make the same set of (class, path, endpoint) triples when a Wrapped
\* class is taken as the class it wraps, its loader and its __name__
\* instead of as a class object.
SameTriples ==
    \A i, j \in RunIds :
        SameTreeRuns(i, j)
            => {UpToIdentity(g) : g \in Range(runs[i].regs)}
                 = {UpToIdentity(g) : g \in Range(runs[j].regs)}

\* C9 amended: two registrations of the same tree make the same triples up
\* to the identity of the Wrapped classes, and the step that registers
\* leaves the heap, and so every node of the tree, as it found it.
C9_Reregistration ==
    /\ []SameTriples
    /\ [][Len(runs') # Len(runs) => heap' = heap]_vars

\* The same root was registered twice with no constructor call between, and
\* each run registered a wrapped class and an unwrapped one.
C9_Witness ==
    \E i, j \in RunIds :
        /\ i # j
        /\ SameTreeRuns(i, j)
        /\ \E g \in Range(runs[i].regs) : IsWrapped(g.cls)
        /\ \E g \in Range(runs[i].regs) : ~IsWrapped(g.cls)
        /\ \E g \in Range(runs[j].regs) : IsWrapped(g.cls)

\* C10 as stated: every node in the children list of a Route P has P as its
\* parent, so that the loader register_routes reads through the node's
\* parent reference is P's.
C10_Original ==
    \A P \in Routes(heap) :
        \A c \in Range(heap[P].children) :
            /\ heap[c].parent = P
            /\ heap[heap[c].parent].loader = heap[P].loader

---------------------------------------------------------------------------
(* Claims about Wrapped.dispatch_request, under SpecDispatch.               *)

Dispatched == res # NoRes

\* C4: when the loader returns LoaderResponse(body, code), or
\* LoaderResponse(body) and then with code 200, dispatch_request returns
\* (body, code) and the inner dispatch_request is not called.
C4_ShortCircuit ==
    (Dispatched /\ req.loader.ctor = "LoaderResponse") =>
        LET cargs == req.loader.cargs
        IN  /\ res.op = "returned"
            /\ res.ret = <<cargs[1], IF Len(cargs) = 2 THEN cargs[2] ELSE 200>>
            /\ ~res.inner

\* A request was answered by a LoaderResponse built without a code.
C4_Witness ==
    /\ Dispatched
    /\ req.loader.ctor = "LoaderResponse"
    /\ Len(req.loader.cargs) = 1
    /\ res.ret[2] = 200
    /\ req.args # <<>>

\* The value the loader returned, when it returned one that is no
\* LoaderResponse.
Returned(type) ==
    /\ Dispatched
    /\ req.loader.ctor = "value"
    /\ req.loader.value.type = type

\* C5 as stated: when the loader returns a mapping M, the inner
\* dispatch_request is called with the entries of M as keyword arguments and
\* with no positional argument, whatever the framework passed.
C5_Original ==
    Returned("dict") =>
        /\ res.inner
        /\ res.kwargs = req.loader.value.items
        /\ res.args = <<>>

\* C6 as stated: when the loader returns a tuple or a tuple-like value (a
\* namedtuple, a list), the inner dispatch_request is called with its
\* elements as positional arguments and no keyword argument.
C6_Original ==
    (Returned("tuple") \/ Returned("object_loader") \/ Returned("list")) =>
        /\ res.inner
        /\ res.args = req.loader.value.items
        /\ res.kwargs = {}

\* C6 amended: when the loader returns a value whose type is exactly tuple,
\* the inner dispatch_request is called with its elements, in order, as
\* positional arguments and with no keyword argument, whatever the framework
\* passed.
C6_ExactTuple ==
    Returned("tuple") =>
        /\ res.inner
        /\ res.args = req.loader.value.items
        /\ res.kwargs = {}

\* The loader returned a tuple of two to a request that came with positional
\* and keyword arguments.
C6_Witness ==
    /\ Returned("tuple")
    /\ Len(req.loader.value.items) = 2
    /\ req.args # <<>>
    /\ req.kwargs # {}
    /\ res.inner

---------------------------------------------------------------------------
(* Claims about Route.__init__, under SpecCtor.                             *)

\* The last character of e is "s" or "S".
EndsInS(e) == Len(e) > 0 /\ e[Len(e)] \in {"s", "S"}

\* An explicit loader and a single class with restful_loader.
TwoLoaders(a) == a.loader # None /\ HasRestfulLoader(a.single)

\* The node the call constructed.
NewNode == heap[Len(PreHeap) + 1]

\* C7: Route(e, ...) without loader conflict succeeds when e does not end in
\* "s" or "S"; when it does, the call fails with the endpoint error and no
\* object is added and no child's parent is assigned.
C7_EndpointCheck ==
    (call.op = "Route" /\ call.done) =>
        LET a == call.args
        IN  /\ (~EndsInS(a.endpoint) /\ ~TwoLoaders(a)) =>
                  /\ err = ""
                  /\ Len(heap) = Len(PreHeap) + 1
                  /\ NewNode.endpoint = a.endpoint
                  /\ NewNode.children = a.children
            /\ EndsInS(a.endpoint) =>
                  /\ err = EndpointError
                  /\ heap = PreHeap

\* A call with an endpoint in "S" and two children failed.
C7_Witness ==
    /\ call.op = "Route"
    /\ call.done
    /\ call.args.endpoint = S_boS
    /\ Len(call.args.children) = 2
    /\ err = EndpointError

\* What C8 says of a call with arguments a.
LoaderRule(a) ==
    IF TwoLoaders(a)
    THEN err = LoaderError
    ELSE /\ err = ""
         /\ Len(heap) = Len(PreHeap) + 1
         /\ NewNode.loader =
              IF a.loader # None THEN a.loader
              ELSE IF HasRestfulLoader(a.single) THEN RestfulLoader(a.single)
              ELSE None

\* C8 as stated: Route(...) fails with the duplicate-loader error exactly
\* when an explicit loader is given and single has restful_loader; otherwise
\* the node's loader is the explicit one, else single's restful_loader, else
\* None.
C8_Original ==
    (call.op = "Route" /\ call.done) =>
        /\ err = LoaderError <=> TwoLoaders(call.args)
        /\ err = "" => LoaderRule(call.args)

\* C8 amended: the same, for a Route(...) call whose endpoint passes the
\* singular test, which is made first.
C8_LoaderSource ==
    (call.op = "Route" /\ call.done /\ ~EndsInS(call.args.endpoint))
        => LoaderRule(call.args)

\* A call with two loader sources and a child failed with the loader error.
C8_Witness ==
    /\ call.op = "Route"
    /\ call.done
    /\ ~EndsInS(call.args.endpoint)
    /\ TwoLoaders(call.args)
    /\ call.args.children # <<>>
    /\ err = LoaderError

=============================================================================
